---- MODULE Spec2Model ----
(***************************************************************************)
(* SmartHomeFOL: the backward-chaining first-order reasoner of             *)
(* inference_engine.py (unification with occurs-check, rule renaming,      *)
(* built-in comparisons, negation as failure, the proof search and ask).   *)
(*                                                                         *)
(* Terms.  Python terms are untyped strings, integers and lists; here a    *)
(* term is a tagged tuple:                                                 *)
(*   <<"var", base, sfx>>  the string base__s1__s2...  (sfx a sequence of  *)
(*                         counter values; <<>> is the bare name base),    *)
(*   <<"str", s>>          a string that does not match VAR_RE,            *)
(*   <<"int", i>>          a Python int,                                   *)
(*   <<"list", elems>>     a Python list of terms.                         *)
(* A base name is a variable name with no "__<digits>" ending, so the      *)
(* string V__n splits in exactly one way into V and n: two variable terms  *)
(* are equal exactly when the Python strings are equal.                    *)
(***************************************************************************)
EXTENDS Integers, Sequences, FiniteSets, TLC

VARIABLES
    kb,       \* the facts and rules loaded (load_kb)
    counter,  \* the value next(_unique_var_counter) returns next
    theta,    \* the substitution a caller of unify holds
    op,       \* "idle", or the call whose result the caller is looking at
    inp,      \* the arguments of that call
    out       \* what that call returned

vars == <<kb, counter, theta, op, inp, out>>

----------------------------------------------------------------------------
(* Terms and substitutions *)

Var(b, s) == <<"var", b, s>>
V(b) == Var(b, <<>>)
Str(s) == <<"str", s>>
Num(i) == <<"int", i>>
Lst(e) == <<"list", e>>

is_list(x) == x[1] = "list"

\* is_variable: isinstance(x, str) and VAR_RE.match(x)
is_variable(x) == x[1] = "var"

\* The empty dict {}
EmptySubst == <<>>

\* Optional[Subst]: None, or a dict
None == [ok |-> FALSE, th |-> EmptySubst]
Some(th) == [ok |-> TRUE, th |-> th]

\* new_theta = theta.copy(); new_theta[var] = x
Bind(th, var, x) == [k \in (DOMAIN th) \cup {var} |-> IF k = var THEN x ELSE th[k]]

RECURSIVE occurs_check(_, _, _)
RECURSIVE occurs_any(_, _, _, _)

\* any(occurs_check(var, xi, theta) for xi in x), from element i on
occurs_any(var, elems, i, th) ==
    IF i > Len(elems) THEN FALSE
    ELSE occurs_check(var, elems[i], th) \/ occurs_any(var, elems, i + 1, th)

occurs_check(var, x, th) ==
    IF var = x THEN TRUE
    ELSE IF is_variable(x) /\ x \in DOMAIN th THEN occurs_check(var, th[x], th)
    ELSE IF is_list(x) THEN occurs_any(var, x[2], 1, th)
    ELSE FALSE

\* Outcomes of apply_subst_to_term that are not a term
TypeError == <<"raise", "TypeError">>
Diverges == <<"raise", "Diverges">>

RECURSIVE subst_loop(_, _, _)

\* while term in theta: term = theta[term].  `term in theta` raises TypeError
\* (unhashable type) once term is a list.  A chain that takes more steps than
\* theta has keys has come back to a key and never leaves the loop.
subst_loop(term, th, steps) ==
    IF is_list(term) THEN TypeError
    ELSE IF term \in DOMAIN th
         THEN IF steps > Cardinality(DOMAIN th) THEN Diverges
              ELSE subst_loop(th[term], th, steps + 1)
         ELSE term

apply_subst_to_term(term, th) ==
    IF is_variable(term) THEN subst_loop(term, th, 1) ELSE term

\* [apply_subst_to_term(a, theta) for a in args]: the list, or what the
\* first failing element raises
apply_subst_to_args(args, th) ==
    LET r == [i \in 1..Len(args) |-> apply_subst_to_term(args[i], th)]
    IN  IF \E i \in 1..Len(args) : r[i] = Diverges THEN Diverges
        ELSE IF \E i \in 1..Len(args) : r[i] = TypeError THEN TypeError
        ELSE Lst(r)

----------------------------------------------------------------------------
(* Unification *)

RECURSIVE unify(_, _, _)
RECURSIVE unify_var(_, _, _)
RECURSIVE unify_args(_, _, _, _)

\* for xi, yi in zip(x, y): new_theta = unify(xi, yi, new_theta);
\* None returns at once
unify_args(xs, ys, i, th) ==
    IF i > Len(xs) THEN Some(th)
    ELSE LET r == unify(xs[i], ys[i], th)
         IN  IF r.ok THEN unify_args(xs, ys, i + 1, r.th) ELSE None

unify_var_no_occurs(var, x, th) ==
    IF var \in DOMAIN th THEN unify(th[var], x, th)
    ELSE IF is_variable(x) /\ x \in DOMAIN th THEN unify(var, th[x], th)
    ELSE Some(Bind(th, var, x))

unify_var(var, x, th) ==
    IF var \in DOMAIN th THEN unify(th[var], x, th)
    ELSE IF is_variable(x) /\ x \in DOMAIN th THEN unify(var, th[x], th)
    ELSE IF occurs_check(var, x, th) THEN None
    ELSE Some(Bind(th, var, x))

unify(x, y, th) ==
    IF x = y THEN Some(th)
    ELSE IF is_variable(x) THEN unify_var(x, y, th)
    ELSE IF is_variable(y) THEN unify_var(y, x, th)
    ELSE IF is_list(x) /\ is_list(y) /\ Len(x[2]) = Len(y[2])
         THEN unify_args(x[2], y[2], 1, th)
    ELSE None

----------------------------------------------------------------------------
(* Unification on dict objects.  A substitution is a dict the caller owns: *)
(* heap is the sequence of the dicts that exist, ref the place of one of   *)
(* them.  theta.copy() adds a dict to the heap, new_theta[var] = x writes  *)
(* into the dict new_theta names, return theta hands back the very dict    *)
(* that was passed in.  A result is [ok, ref, heap]: the dict returned     *)
(* (None when ok is false) and the dicts as the call leaves them.          *)

RECURSIVE unify_obj(_, _, _, _)
RECURSIVE unify_var_obj(_, _, _, _)
RECURSIVE unify_args_obj(_, _, _, _, _)

NoneObj(heap) == [ok |-> FALSE, ref |-> 0, heap |-> heap]
SomeObj(ref, heap) == [ok |-> TRUE, ref |-> ref, heap |-> heap]

\* the loop over zip(x, y) on new_theta, which each unify call replaces
unify_args_obj(xs, ys, i, ref, heap) ==
    IF i > Len(xs) THEN SomeObj(ref, heap)
    ELSE LET r == unify_obj(xs[i], ys[i], ref, heap)
         IN  IF r.ok THEN unify_args_obj(xs, ys, i + 1, r.ref, r.heap) ELSE NoneObj(r.heap)

\* unify_var that writes theta[var] = x into the dict it was given
unify_var_in_place(var, x, ref, heap) ==
    LET th == heap[ref]
    IN  IF var \in DOMAIN th THEN unify_obj(th[var], x, ref, heap)
        ELSE IF is_variable(x) /\ x \in DOMAIN th THEN unify_obj(var, th[x], ref, heap)
        ELSE IF occurs_check(var, x, th) THEN NoneObj(heap)
        ELSE SomeObj(ref, [heap EXCEPT ![ref] = Bind(th, var, x)])

\* unify_var: new_theta = theta.copy(); new_theta[var] = x; return new_theta
unify_var_obj(var, x, ref, heap) ==
    LET th == heap[ref]
    IN  IF var \in DOMAIN th THEN unify_obj(th[var], x, ref, heap)
        ELSE IF is_variable(x) /\ x \in DOMAIN th THEN unify_obj(var, th[x], ref, heap)
        ELSE IF occurs_check(var, x, th) THEN NoneObj(heap)
        ELSE SomeObj(Len(heap) + 1, Append(heap, Bind(th, var, x)))

\* unify: x == y returns theta itself; the list branch works on theta.copy()
unify_obj(x, y, ref, heap) ==
    IF x = y THEN SomeObj(ref, heap)
    ELSE IF is_variable(x) THEN unify_var_obj(x, y, ref, heap)
    ELSE IF is_variable(y) THEN unify_var_obj(y, x, ref, heap)
    ELSE IF is_list(x) /\ is_list(y) /\ Len(x[2]) = Len(y[2])
         THEN unify_args_obj(x[2], y[2], 1, Len(heap) + 1, Append(heap, heap[ref]))
    ELSE NoneObj(heap)

----------------------------------------------------------------------------
(* Inputs of the unifier *)

\* How many distinct variables the unifier's inputs use
NumVars == 2

VarNames == <<"X", "Y", "Z", "W">>
UVars == {V(VarNames[i]) : i \in 1..NumVars}
UConsts == {Str("a"), Str("b")}
UAtoms == UVars \cup UConsts
\* The argument lists: one or two elements
ListElems == {V("X"), V("Y"), Str("b")}
ULists == {Lst(<<p>>) : p \in ListElems} \cup {Lst(<<p, q>>) : p \in ListElems, q \in ListElems}
UTerms == UAtoms \cup ULists

\* Is the binding graph of th free of cycles: no variable reaches itself
RECURSIVE Reach(_, _, _)
TermVars(t) ==
    IF is_variable(t) THEN {t}
    ELSE IF is_list(t) THEN {t[2][i] : i \in {j \in 1..Len(t[2]) : is_variable(t[2][j])}}
    ELSE {}
Reach(S, th, n) ==
    IF n = 0 THEN S
    ELSE Reach(S \cup UNION {TermVars(th[v]) : v \in S \cap DOMAIN th}, th, n - 1)
Acyclic(th) ==
    \A v \in DOMAIN th :
        v \notin Reach(TermVars(th[v]), th, Cardinality(DOMAIN th))

\* Every acyclic substitution that binds some of X, Y to terms
BoundVars == {V("X"), V("Y")}
AcyclicSubsts ==
    {th \in UNION {[D -> UTerms] : D \in SUBSET BoundVars} : Acyclic(th)}

----------------------------------------------------------------------------
(* The unifier's calls.  A caller is idle, makes one call and looks at its *)
(* result (op names the call, inp its arguments, out what it returned),    *)
(* then is idle again.                                                     *)

Init ==
    /\ kb = [facts |-> <<>>, rules |-> <<>>]
    /\ counter = 0
    /\ theta = EmptySubst
    /\ op = "idle"
    /\ inp = <<>>
    /\ out = <<>>

\* The caller is done with the result of its last call
Return ==
    /\ op # "idle"
    /\ op' = "idle"
    /\ inp' = <<>>
    /\ out' = <<>>
    /\ UNCHANGED <<kb, counter, theta>>

\* unify(x, y, theta) on the substitution an earlier call produced; a
\* successful result is the substitution of the calls that follow
UnifyChain(x, y) ==
    LET r == unify(x, y, theta)
    IN  /\ op = "idle"
        /\ op' = "unify_chain"
        /\ inp' = [x |-> x, y |-> y, s |-> theta]
        /\ out' = r
        /\ theta' = IF r.ok THEN r.th ELSE theta
        /\ UNCHANGED <<kb, counter>>

\* A caller that holds a substitution it wrote by hand
InitUnify ==
    /\ kb = [facts |-> <<>>, rules |-> <<>>]
    /\ counter = 0
    /\ theta \in AcyclicSubsts
    /\ op = "idle"
    /\ inp = <<>>
    /\ out = <<>>

\* unify(x, y, theta) on the caller's substitution, which the caller keeps
UnifyCall(x, y) ==
    /\ op = "idle"
    /\ op' = "unify"
    /\ inp' = [x |-> x, y |-> y, s |-> theta]
    /\ out' = unify(x, y, theta)
    /\ UNCHANGED <<kb, counter, theta>>

\* unify(x, y, theta) on the caller's dict: the caller's dict is the first
\* of the heap, and after the call theta is what that dict then holds.  The
\* caller sees the returned dict and whether it is its own (result is theta)
UnifyObj(x, y) ==
    LET r == unify_obj(x, y, 1, <<theta>>)
    IN  /\ op = "idle"
        /\ op' = "unify_obj"
        /\ inp' = [x |-> x, y |-> y, s |-> theta]
        /\ out' = [ok |-> r.ok,
                   th |-> IF r.ok THEN r.heap[r.ref] ELSE EmptySubst,
                   same |-> r.ok /\ r.ref = 1]
        /\ theta' = r.heap[1]
        /\ UNCHANGED <<kb, counter>>

NextObj ==
    \/ op = "idle" /\ \E x \in UTerms, y \in UTerms : UnifyObj(x, y)
    \/ Return

SpecObj == InitUnify /\ [][NextObj]_vars

NextChain ==
    \/ op = "idle" /\ \E x \in UTerms, y \in UTerms : UnifyChain(x, y)
    \/ Return

SpecChain == Init /\ [][NextChain]_vars

NextUnify ==
    \/ op = "idle" /\ \E x \in UTerms, y \in UTerms : UnifyCall(x, y)
    \/ Return

SpecUnify == InitUnify /\ [][NextUnify]_vars

----------------------------------------------------------------------------
(* Built-in comparisons *)

\* re.fullmatch(r'-?\d+', a) and int(a), for the strings of digits in use
IntOfStr == ("29" :> 29) @@ ("25" :> 25) @@ ("10" :> 10)

\* Python's order of str (by code point), as ranks, for the other strings in use
StrRank ==
    ("a" :> 1) @@ ("abc" :> 2) @@ ("b" :> 3) @@ ("c" :> 4) @@ ("kitchen" :> 5)
        @@ ("living_room" :> 6) @@ ("warm" :> 7)

\* if isinstance(a, str) and re.fullmatch(r'-?\d+', a): a = int(a)
coerce(a) ==
    IF a[1] = "str" /\ a[2] \in DOMAIN IntOfStr THEN Num(IntOfStr[a[2]]) ELSE a

\* What a comparison or eval_builtin gives: a bool, or an exception
Bool(b) == [val |-> b, exc |-> "none"]
Raises(e) == [val |-> FALSE, exc |-> e]

RECURSIVE py_less(_, _)
RECURSIVE first_diff(_, _, _)

\* The first index at which two lists differ, 0 when one is a prefix of the other
first_diff(xs, ys, i) ==
    IF i > Len(xs) \/ i > Len(ys) THEN 0
    ELSE IF xs[i] # ys[i] THEN i
    ELSE first_diff(xs, ys, i + 1)

\* Python's a < b: int with int, str with str, list with list (at the first
\* differing element, else by length); every other pairing raises TypeError
py_less(a, b) ==
    IF a[1] = "int" /\ b[1] = "int" THEN Bool(a[2] < b[2])
    ELSE IF a[1] = "str" /\ b[1] = "str" THEN Bool(StrRank[a[2]] < StrRank[b[2]])
    ELSE IF is_list(a) /\ is_list(b)
         THEN LET i == first_diff(a[2], b[2], 1)
              IN  IF i = 0 THEN Bool(Len(a[2]) < Len(b[2]))
                  ELSE py_less(a[2][i], b[2][i])
    ELSE Raises("TypeError")

\* Python's a > b (the reflected a < b for these types)
py_greater(a, b) == py_less(b, a)

\* eval_builtin: apply_subst_to_args is outside the try; the try covers the
\* indexing (IndexError under two arguments), the variable test and int();
\* the comparison itself is after the try
eval_builtin(pred, args, th) ==
    LET resolved == apply_subst_to_args(args, th)
    IN  IF resolved[1] = "raise" THEN Raises(resolved[2])
        ELSE IF Len(resolved[2]) < 2 THEN Bool(FALSE)
        ELSE IF is_variable(resolved[2][1]) \/ is_variable(resolved[2][2]) THEN Bool(FALSE)
        ELSE LET a == coerce(resolved[2][1])
                 b == coerce(resolved[2][2])
             IN  IF pred = "GreaterThan" THEN py_greater(a, b)
                 ELSE IF pred = "LessThan" THEN py_less(a, b)
                 ELSE Bool(FALSE)

Builtins == {"GreaterThan", "LessThan"}

----------------------------------------------------------------------------
(* Facts, literals, rules *)

Fact(p, args) == <<p, args>>
Lit(p, args) == [pred |-> p, args |-> args, negated |-> FALSE]
NotLit(p, args) == [pred |-> p, args |-> args, negated |-> TRUE]
Rule(head, body) == [head |-> head, body |-> body]

\* [f for f in facts if f[0] == pred_name]
facts_for_pred(facts, pred_name) == SelectSeq(facts, LAMBDA f : f[1] = pred_name)

\* [r for r in rules if r["head"][0] == pred_name]
rules_for_head(rules, pred_name) == SelectSeq(rules, LAMBDA r : r.head[1] = pred_name)

\* rename_term: f"{t}__{uid}" for a variable, t itself otherwise.  The
\* mapping dict only remembers the name already built for t.
rename_term(t, uid) ==
    IF is_variable(t) THEN Var(t[2], Append(t[3], uid)) ELSE t

rename_args(args, uid) == [i \in 1..Len(args) |-> rename_term(args[i], uid)]

\* rename_rule with uid = next(_unique_var_counter) already drawn
rename_rule(rule, uid) ==
    [head |-> <<rule.head[1], rename_args(rule.head[2], uid)>>,
     body |-> [i \in 1..Len(rule.body) |->
                  [pred |-> rule.body[i].pred,
                   args |-> rename_args(rule.body[i].args, uid),
                   negated |-> rule.body[i].negated]]]

----------------------------------------------------------------------------
(* The proof search.                                                       *)
(*                                                                         *)
(* prove_literal and prove_all are generators: each substitution they      *)
(* yield is handed to the consumer, which runs before the generator is      *)
(* resumed.  The consumer of a generator is passed along as k:              *)
(*   k.ctr    the value next(_unique_var_counter) would return now,         *)
(*   k.depth  how many rule applications enclose this call,                 *)
(*   k.rest   the pending loops `for theta2 in prove_all(rest, theta1)` of  *)
(*            the enclosing prove_all calls, innermost first, each to be    *)
(*            run on every substitution yielded,                            *)
(*   k.first  whether the outermost consumer is the negation loop, which    *)
(*            breaks at the first substitution (otherwise it takes all).    *)
(* A call returns what happened until the generator was exhausted, the      *)
(* consumer stopped or an exception left it: the substitutions that         *)
(* reached the outermost consumer in order (sols), the counter after        *)
(* (ctr), the exception if any (exc), and the rule applications made, in    *)
(* order (log: the counter value drawn, the variables of the renamed copy,  *)
(* the variables of the goal and of the substitution at that moment).       *)
(***************************************************************************)

\* The depth of nested rule applications at which the interpreter's
\* recursion limit is hit (RecursionError)
MaxDepth == 3

Result(sols, ctr, log) == [sols |-> sols, ctr |-> ctr, exc |-> "none", log |-> log]
Raised(e, ctr, log) == [sols |-> <<>>, ctr |-> ctr, exc |-> e, log |-> log]

\* Does the search end with r: an exception, or the break of the negation loop
Stops(r, k) == r.exc # "none" \/ (k.first /\ r.sols # <<>>)

\* r1 and then r2
Join(r1, r2) ==
    [sols |-> r1.sols \o r2.sols, ctr |-> r2.ctr, exc |-> r2.exc, log |-> r1.log \o r2.log]

ArgVars(args) == {args[i] : i \in {j \in 1..Len(args) : is_variable(args[j])}}
SubstVars(th) == (DOMAIN th) \cup UNION {TermVars(th[v]) : v \in DOMAIN th}
RuleVars(rule) ==
    ArgVars(rule.head[2]) \cup UNION {ArgVars(rule.body[i].args) : i \in 1..Len(rule.body)}

LogEntry(uid, renamed, literal, th) ==
    [uid |-> uid, copy |-> RuleVars(renamed), inplay |-> ArgVars(literal.args) \cup SubstVars(th)]

RECURSIVE prove_literal(_, _, _, _, _)
RECURSIVE prove_all(_, _, _, _, _)
RECURSIVE yield(_, _, _, _)
RECURSIVE try_facts(_, _, _, _, _, _)
RECURSIVE try_rules(_, _, _, _, _, _)

\* yield th: the innermost pending prove_all(rest, th) runs, or th reaches
\* the outermost consumer
yield(th, facts, rules, k) ==
    IF k.rest = <<>> THEN Result(<<th>>, k.ctr, <<>>)
    ELSE prove_all(Head(k.rest).lits, facts, rules, th,
                   [k EXCEPT !.rest = Tail(k.rest), !.depth = Head(k.rest).depth])

\* 3. for fact in facts_for_pred(facts, pred), from the i-th on
try_facts(literal, facts, rules, th, k, i) ==
    LET fs == facts_for_pred(facts, literal.pred)
    IN  IF i > Len(fs) THEN Result(<<>>, k.ctr, <<>>)
        ELSE LET new_theta == unify(Lst(literal.args), Lst(fs[i][2]), th)
                 r == IF new_theta.ok THEN yield(new_theta.th, facts, rules, k)
                      ELSE Result(<<>>, k.ctr, <<>>)
             IN  IF Stops(r, k) THEN r
                 ELSE Join(r, try_facts(literal, facts, rules, th, [k EXCEPT !.ctr = r.ctr], i + 1))

\* 4. for rule in rules_for_head(rules, pred), from the i-th on
try_rules(literal, facts, rules, th, k, i) ==
    LET rs == rules_for_head(rules, literal.pred)
    IN  IF i > Len(rs) THEN Result(<<>>, k.ctr, <<>>)
        ELSE LET uid == k.ctr
                 r_ == rename_rule(rs[i], uid)
                 entry == LogEntry(uid, r_, literal, th)
                 new_theta == unify(Lst(literal.args), Lst(r_.head[2]), th)
                 r == IF ~new_theta.ok THEN Result(<<>>, uid + 1, <<entry>>)
                      ELSE IF k.depth >= MaxDepth THEN Raised("RecursionError", uid + 1, <<entry>>)
                      ELSE Join(Result(<<>>, uid + 1, <<entry>>),
                                prove_all(r_.body, facts, rules, new_theta.th,
                                          [k EXCEPT !.ctr = uid + 1, !.depth = k.depth + 1]))
             IN  IF Stops(r, k) THEN r
                 ELSE Join(r, try_rules(literal, facts, rules, th, [k EXCEPT !.ctr = r.ctr], i + 1))

\* prove_literal with the rules tried before the facts
prove_literal_rules_first(literal, facts, rules, th, k) ==
    IF literal.negated
    THEN LET inner == prove_literal([literal EXCEPT !.negated = FALSE], facts, rules, th,
                                    [ctr |-> k.ctr, depth |-> k.depth, rest |-> <<>>, first |-> TRUE])
         IN  IF inner.exc # "none" THEN Raised(inner.exc, inner.ctr, inner.log)
             ELSE IF inner.sols # <<>> THEN Result(<<>>, inner.ctr, inner.log)
             ELSE Join(Result(<<>>, inner.ctr, inner.log),
                       yield(th, facts, rules, [k EXCEPT !.ctr = inner.ctr]))
    ELSE IF literal.pred \in Builtins
    THEN LET e == eval_builtin(literal.pred, literal.args, th)
         IN  IF e.exc # "none" THEN Raised(e.exc, k.ctr, <<>>)
             ELSE IF e.val THEN yield(th, facts, rules, k)
             ELSE Result(<<>>, k.ctr, <<>>)
    ELSE LET rr == try_rules(literal, facts, rules, th, k, 1)
         IN  IF Stops(rr, k) THEN rr
             ELSE Join(rr, try_facts(literal, facts, rules, th, [k EXCEPT !.ctr = rr.ctr], 1))

\* prove_literal without the return that ends the negation branch: the
\* negated literal goes on to the facts and rules like a positive one
prove_literal_no_return(literal, facts, rules, th, k) ==
    LET pos == [literal EXCEPT !.negated = FALSE]
        inner == prove_literal(pos, facts, rules, th,
                               [ctr |-> k.ctr, depth |-> k.depth, rest |-> <<>>, first |-> TRUE])
        neg == IF ~literal.negated THEN Result(<<>>, k.ctr, <<>>)
               ELSE IF inner.exc # "none" THEN Raised(inner.exc, inner.ctr, inner.log)
               ELSE IF inner.sols # <<>> THEN Result(<<>>, inner.ctr, inner.log)
               ELSE Join(Result(<<>>, inner.ctr, inner.log),
                         yield(th, facts, rules, [k EXCEPT !.ctr = inner.ctr]))
        k1 == [k EXCEPT !.ctr = neg.ctr]
        rest == IF pos.pred \in Builtins
                THEN LET e == eval_builtin(pos.pred, pos.args, th)
                     IN  IF e.exc # "none" THEN Raised(e.exc, k1.ctr, <<>>)
                         ELSE IF e.val THEN yield(th, facts, rules, k1)
                         ELSE Result(<<>>, k1.ctr, <<>>)
                ELSE LET rf == try_facts(pos, facts, rules, th, k1, 1)
                     IN  IF Stops(rf, k1) THEN rf
                         ELSE Join(rf, try_rules(pos, facts, rules, th, [k1 EXCEPT !.ctr = rf.ctr], 1))
    IN  IF Stops(neg, k) THEN neg ELSE Join(neg, rest)

prove_literal(literal, facts, rules, th, k) ==
    IF literal.negated
    THEN \* 1. negation as failure: the positive literal under theta.copy(),
         \*    break at its first substitution
         LET inner == prove_literal([literal EXCEPT !.negated = FALSE], facts, rules, th,
                                    [ctr |-> k.ctr, depth |-> k.depth, rest |-> <<>>, first |-> TRUE])
         IN  IF inner.exc # "none" THEN Raised(inner.exc, inner.ctr, inner.log)
             ELSE IF inner.sols # <<>> THEN Result(<<>>, inner.ctr, inner.log)
             ELSE Join(Result(<<>>, inner.ctr, inner.log),
                       yield(th, facts, rules, [k EXCEPT !.ctr = inner.ctr]))
    ELSE IF literal.pred \in Builtins
    THEN \* 2. built-in predicate
         LET e == eval_builtin(literal.pred, literal.args, th)
         IN  IF e.exc # "none" THEN Raised(e.exc, k.ctr, <<>>)
             ELSE IF e.val THEN yield(th, facts, rules, k)
             ELSE Result(<<>>, k.ctr, <<>>)
    ELSE LET rf == try_facts(literal, facts, rules, th, k, 1)
         IN  IF Stops(rf, k) THEN rf
             ELSE Join(rf, try_rules(literal, facts, rules, th, [k EXCEPT !.ctr = rf.ctr], 1))

prove_all(literals, facts, rules, th, k) ==
    IF Len(literals) = 0 THEN yield(th, facts, rules, k)
    ELSE prove_literal(Head(literals), facts, rules, th,
                       [k EXCEPT !.rest = <<[lits |-> Tail(literals), depth |-> k.depth]>> \o k.rest])

\* A call from outside any proof: nothing pending, every substitution wanted
TopLevel(ctr) == [ctr |-> ctr, depth |-> 0, rest |-> <<>>, first |-> FALSE]

\* normalize without the dereferencing
normalize_raw(th) == th

\* normalized[var] = apply_subst_to_term(val, theta) for var, val in theta.items()
normalize(th) == [v \in DOMAIN th |-> apply_subst_to_term(th[v], th)]

\* ask: the list of normalized solutions, or the exception that leaves it
\* (solutions collected before an exception are lost with the list)
ask(query, facts, rules, ctr) ==
    LET r == prove_literal(query, facts, rules, EmptySubst, TopLevel(ctr))
    IN  [exc |-> r.exc,
         sols |-> IF r.exc = "none" THEN [i \in 1..Len(r.sols) |-> normalize(r.sols[i])] ELSE <<>>,
         ctr |-> r.ctr,
         log |-> r.log]

----------------------------------------------------------------------------
(* Knowledge bases, as load_kb hands them to the engine *)

X == V("X")
Y == V("Y")

\* The knowledge base of the end-to-end scenario
Cooling ==
    [facts |-> <<Fact("Occupied", <<Str("living_room")>>),
                 Fact("Temperature", <<Str("living_room"), Num(29)>>)>>,
     rules |-> <<Rule(<<"NeedsCooling", <<V("Room")>>>>,
                      <<Lit("Occupied", <<V("Room")>>),
                        Lit("Temperature", <<V("Room"), V("T")>>),
                        Lit("GreaterThan", <<V("T"), Num(25)>>)>>)>>]

\* A recursive rule over a cycle of facts
Cyclic ==
    [facts |-> <<Fact("Q", <<Str("a"), Str("b")>>), Fact("Q", <<Str("b"), Str("a")>>)>>,
     rules |-> <<Rule(<<"P", <<X>>>>, <<Lit("Q", <<X, Y>>), Lit("P", <<Y>>)>>)>>]

\* A rule with a variable that is not in its head
Chain ==
    [facts |-> <<Fact("Q", <<Str("a"), Str("b")>>)>>,
     rules |-> <<Rule(<<"R", <<X>>>>, <<Lit("Q", <<X, Y>>)>>)>>]

\* Negated literals before and after the literal that binds their variable
Negation ==
    [facts |-> <<Fact("P", <<Str("a")>>), Fact("P", <<Str("b")>>), Fact("Q", <<Str("b")>>)>>,
     rules |-> <<Rule(<<"R", <<X>>>>, <<NotLit("Q", <<X>>), Lit("P", <<X>>)>>),
                 Rule(<<"S", <<X>>>>, <<Lit("P", <<X>>), NotLit("Q", <<X>>)>>)>>]

\* Several facts and several rules for one predicate
Order ==
    [facts |-> <<Fact("A", <<Str("b")>>), Fact("A", <<Str("a")>>),
                 Fact("B", <<Str("a")>>), Fact("B", <<Str("b")>>),
                 Fact("R", <<Str("b"), Str("b")>>), Fact("R", <<Str("a"), Str("c")>>)>>,
     rules |-> <<Rule(<<"R", <<X, Y>>>>, <<Lit("A", <<X>>), Lit("B", <<Y>>)>>),
                 Rule(<<"R", <<X, X>>>>, <<Lit("B", <<X>>)>>)>>]

KBs == {Cooling, Cyclic, Chain, Negation, Order}

NoKB == [facts |-> <<>>, rules |-> <<>>]

\* The predicates of a knowledge base with their numbers of arguments, and
\* its constants
Range(f) == {f[i] : i \in DOMAIN f}
KBLiterals(k) ==
    {<<f[1], f[2]>> : f \in Range(k.facts)}
        \cup {r.head : r \in Range(k.rules)}
        \cup UNION {{<<l.pred, l.args>> : l \in Range(r.body)} : r \in Range(k.rules)}
KBPreds(k) == {<<l[1], Len(l[2])>> : l \in KBLiterals(k)}
KBConsts(k) == UNION {{t \in Range(l[2]) : ~is_variable(t)} : l \in KBLiterals(k)}

\* The query literals put to a knowledge base: its predicates on variables
\* (Y__0 is a name rename_rule builds too), its constants and a constant it
\* does not know
QueryVars == {X, Y, Var("Y", <<0>>)}
Unknown == Str("kitchen")
QueryTerms(k) == QueryVars \cup KBConsts(k) \cup {Unknown}
Queries(k) ==
    {[pred |-> p[1], args |-> a, negated |-> n] :
        p \in KBPreds(k), a \in UNION {[1..m -> QueryTerms(k)] : m \in {q[2] : q \in KBPreds(k)}},
        n \in BOOLEAN}

----------------------------------------------------------------------------
(* Queries: main.py loads one knowledge base and then calls ask for each   *)
(* query typed.  The counter is never reset.                               *)

\* No call draws a counter value above this one
MaxCounter == 2

InitAsk ==
    /\ kb \in KBs
    /\ counter = 0
    /\ theta = EmptySubst
    /\ op = "idle"
    /\ inp = <<>>
    /\ out = <<>>

\* sols = ask(query, facts, rules)
Ask(query) ==
    LET r == ask(query, kb.facts, kb.rules, counter)
    IN  /\ op = "idle"
        /\ counter <= MaxCounter
        /\ op' = "ask"
        /\ inp' = [query |-> query, ctr |-> counter]
        /\ out' = r
        /\ counter' = r.ctr
        /\ UNCHANGED <<kb, theta>>

NextAsk ==
    \/ op = "idle" /\ \E q \in Queries(kb) : Ask(q)
    \/ Return

SpecAsk == InitAsk /\ [][NextAsk]_vars

----------------------------------------------------------------------------
(* Direct calls of prove_literal and eval_builtin, as a test makes them    *)

\* The substitutions a caller passes: empty, X bound to a constant, X
\* bound to Y, and X bound to Y bound to a constant
CallerSubsts(k) ==
    LET cs == KBConsts(k) \cup {Unknown}
    IN  {EmptySubst, X :> Y} \cup {X :> c : c \in cs} \cup {(X :> Y) @@ (Y :> c) : c \in cs}

\* list(prove_literal(literal, facts, rules, s))
ProveLiteral(literal, s) ==
    LET r == prove_literal(literal, kb.facts, kb.rules, s, TopLevel(counter))
    IN  /\ op = "idle"
        /\ counter <= MaxCounter
        /\ op' = "prove_literal"
        /\ inp' = [literal |-> literal, s |-> s, ctr |-> counter]
        /\ out' = r
        /\ counter' = r.ctr
        /\ UNCHANGED <<kb, theta>>

\* The arguments of the built-ins: none, one, two or three of these terms
BuiltinTerms ==
    {X, Y, Num(29), Num(25), Str("29"), Str("25"), Str("10"), Str("abc"), Str("a"),
     Lst(<<Num(25)>>), Lst(<<Str("a")>>)}
BuiltinArgs ==
    {<<>>} \cup {<<a>> : a \in BuiltinTerms}
        \cup {<<a, b>> : a \in BuiltinTerms, b \in BuiltinTerms}
        \cup {<<a, a, b>> : a \in {X, Num(29)}, b \in {Num(25), Str("abc")}}
BuiltinSubsts ==
    {EmptySubst, X :> Num(29), X :> Str("10"), X :> Str("abc"), X :> Y,
     (X :> Y) @@ (Y :> Num(25)), X :> Lst(<<Num(25)>>)}
BuiltinNames == Builtins \cup {"Equal"}

\* eval_builtin(pred, args, s)
EvalBuiltin(pred, args, s) ==
    /\ op = "idle"
    /\ op' = "eval_builtin"
    /\ inp' = [pred |-> pred, args |-> args, s |-> s]
    /\ out' = eval_builtin(pred, args, s)
    /\ UNCHANGED <<kb, counter, theta>>

\* prove_literal on a built-in literal, with the arguments and substitutions
\* of EvalBuiltin
ProveBuiltin(pred, args, neg, s) ==
    ProveLiteral([pred |-> pred, args |-> args, negated |-> neg], s)

NextProve ==
    \/ op = "idle" /\ \E q \in Queries(kb), s \in CallerSubsts(kb) : ProveLiteral(q, s)
    \/ Return

SpecProve == InitAsk /\ [][NextProve]_vars

NextBuiltin ==
    \/ op = "idle" /\ \E p \in BuiltinNames, a \in BuiltinArgs, s \in BuiltinSubsts :
                          EvalBuiltin(p, a, s)
    \/ op = "idle" /\ \E p \in Builtins, a \in BuiltinArgs, n \in BOOLEAN, s \in BuiltinSubsts :
                          ProveBuiltin(p, a, n, s)
    \/ Return

SpecBuiltin == Init /\ [][NextBuiltin]_vars

----------------------------------------------------------------------------
(* Claims about the unifier *)

\* What a caller that resolves term t through th gets: a list elementwise
Resolved(t, th) ==
    IF is_list(t) THEN apply_subst_to_args(t[2], th) ELSE apply_subst_to_term(t, th)

\* C5: unify(a, b, s) succeeds exactly when unify(b, a, s) does, and then
\* each of the two substitutions resolves a and b to one and the same value.
C5_UnifySymmetric ==
    op = "unify" =>
        LET r2 == unify(inp.y, inp.x, inp.s)
        IN  /\ out.ok <=> r2.ok
            /\ out.ok =>
                  \A th \in {out.th, r2.th} :
                      /\ Resolved(inp.x, th)[1] # "raise"
                      /\ Resolved(inp.y, th)[1] # "raise"
                      /\ Resolved(inp.x, th) = Resolved(inp.y, th)

\* C6: every substitution reached from {} by successful unify calls is
\* acyclic, so the loop of apply_subst_to_term ends on every variable, and
\* unify("X", ["X", "b"], {}) fails.
C6_Acyclic ==
    /\ Acyclic(theta)
    /\ \A v \in UVars \cup DOMAIN theta : apply_subst_to_term(v, theta) # Diverges
    /\ (op = "unify_chain" /\ inp.s = EmptySubst /\ inp.x = X /\ inp.y = Lst(<<X, Str("b")>>))
          => ~out.ok

\* The occurs-check has refused a binding whose cycle runs through the
\* substitution: the variable is not written in the list, but a variable of
\* the list is bound to it
C6_Witness ==
    /\ op = "unify_chain"
    /\ ~out.ok
    /\ is_variable(inp.x) /\ inp.x \notin DOMAIN inp.s
    /\ is_list(inp.y) /\ inp.x \notin Range(inp.y[2])
    /\ \A i \in 1..Len(inp.y[2]) : inp.y[2][i] \notin DOMAIN inp.s \/ ~is_list(inp.s[inp.y[2][i]])
    /\ occurs_check(inp.x, inp.y, inp.s)

\* C11: unify never changes the substitution it is given and only extends
\* it: after unify(x, y, s) the caller's s holds the bindings it held before,
\* on success and on failure; a successful result holds every binding of s
\* with its value, and its other keys are variables that were unbound in s;
\* when x and y are the same constant or the same variable the result is s.
C11_UnifyPure ==
    op = "unify_obj" =>
        /\ theta = inp.s
        /\ out.ok =>
              /\ \A v \in DOMAIN inp.s : v \in DOMAIN out.th /\ out.th[v] = inp.s[v]
              /\ \A v \in DOMAIN out.th \ DOMAIN inp.s : is_variable(v)
        /\ (inp.x = inp.y /\ ~is_list(inp.x)) => (out.ok /\ out.th = inp.s)

\* A call on a substitution that holds bindings has succeeded and returned
\* a dict with a binding more
C11_Witness ==
    /\ op = "unify_obj"
    /\ inp.s # EmptySubst
    /\ out.ok /\ ~out.same
    /\ DOMAIN out.th # DOMAIN inp.s

----------------------------------------------------------------------------
(* What follows from a knowledge base, told without the search: a ground   *)
(* atom holds when it is a fact, or the head of a ground instance of a     *)
(* rule whose body literals hold (a negated one: does not hold; a built-in *)
(* one: the comparison is true).  Defined for knowledge bases with no      *)
(* recursion.                                                              *)

Ground(args, g) == [i \in 1..Len(args) |-> IF is_variable(args[i]) THEN g[args[i]] ELSE args[i]]

RECURSIVE Holds(_, _, _, _)
Holds(pred, args, k, U) ==
    IF pred \in Builtins
    THEN LET e == eval_builtin(pred, args, EmptySubst) IN e.exc = "none" /\ e.val
    ELSE \/ <<pred, args>> \in Range(k.facts)
         \/ \E r \in Range(k.rules) :
               /\ r.head[1] = pred
               /\ Len(r.head[2]) = Len(args)
               /\ \E g \in [RuleVars(r) -> U] :
                     /\ Ground(r.head[2], g) = args
                     /\ \A i \in 1..Len(r.body) :
                           Holds(r.body[i].pred, Ground(r.body[i].args, g), k, U)
                               # r.body[i].negated

\* The predicates the rules for p use, and the ones reached from them
BodyPreds(k, p) ==
    UNION {{l.pred : l \in Range(r.body)} : r \in {q \in Range(k.rules) : q.head[1] = p}}
RECURSIVE UsedPreds(_, _, _)
UsedPreds(k, S, n) ==
    IF n = 0 THEN S ELSE UsedPreds(k, S \cup UNION {BodyPreds(k, p) : p \in S}, n - 1)
NonRecursive(k) ==
    \A r \in Range(k.rules) : r.head[1] \notin UsedPreds(k, BodyPreds(k, r.head[1]), Len(k.rules))
GroundFacts(k) == \A f \in Range(k.facts) : ArgVars(f[2]) = {}
HeadVarsBound(k) ==
    \A r \in Range(k.rules) :
        ArgVars(r.head[2]) \subseteq
            UNION {ArgVars(l.args) : l \in {b \in Range(r.body) : ~b.negated}}
\* Only positive literals on stored predicates in the bodies
Definite(k) ==
    \A r \in Range(k.rules) : \A l \in Range(r.body) : ~l.negated /\ l.pred \notin Builtins

Universe(k) == KBConsts(k) \cup {Unknown}

\* The bindings of the query's variables to constants under which the query follows
DerivableAnswers(query, k) ==
    {b \in [ArgVars(query.args) -> Universe(k)] :
        Holds(query.pred, Ground(query.args, b), k, Universe(k))}

\* The bindings of the query's variables to constants found in a returned solution
ReturnedAnswers(query, k, sols) ==
    {b \in [ArgVars(query.args) -> Universe(k)] :
        \E i \in 1..Len(sols) :
            \A v \in ArgVars(query.args) : v \in DOMAIN sols[i] /\ sols[i][v] = b[v]}

----------------------------------------------------------------------------
(* Claims about ask *)

\* C1: for ground facts and non-recursive rules whose head variables occur
\* in a positive body literal, and a positive query, ask returns exactly the
\* derivable answers.  Stated for the knowledge bases whose bodies hold only
\* positive literals on stored predicates, where what follows from the
\* knowledge base has one meaning.
C1_AskExact ==
    (/\ op = "ask"
     /\ GroundFacts(kb) /\ NonRecursive(kb) /\ HeadVarsBound(kb) /\ Definite(kb)
     /\ ~inp.query.negated)
        => /\ out.exc = "none"
           /\ ReturnedAnswers(inp.query, kb, out.sols) = DerivableAnswers(inp.query, kb)

\* C2 as claimed: the keys of every solution are variables of the query,
\* so NeedsCooling(X) yields exactly {X: living_room}.
C2_OnlyQueryVars ==
    (op = "ask" /\ out.exc = "none") =>
        \A i \in 1..Len(out.sols) : DOMAIN out.sols[i] \subseteq ArgVars(inp.query.args)

\* The variables of the renamed copies made during the call
CopyVars(log) == UNION {log[i].copy : i \in 1..Len(log)}

\* C2 as amended: a solution is the whole substitution of the proof with
\* every value dereferenced: its keys are variables of the query or of the
\* renamed rule copies of this call, no value is itself a key, and the map
\* is empty when the query has no variable and no rule was applied or the
\* query is negated; proved through a rule, NeedsCooling(living_room) yields
\* the map of Room__n and T__n.
\* NeedsCooling(X) yields one solution, which maps X to living_room and
\* also Room__n to living_room and T__n to 29, n the counter value drawn.
C2_SolutionKeys ==
    (op = "ask" /\ out.exc = "none") =>
        /\ \A i \in 1..Len(out.sols) :
              /\ DOMAIN out.sols[i] \subseteq ArgVars(inp.query.args) \cup CopyVars(out.log)
              /\ \A v \in DOMAIN out.sols[i] : out.sols[i][v] \notin DOMAIN out.sols[i]
              /\ (ArgVars(inp.query.args) = {} /\ (out.log = <<>> \/ inp.query.negated))
                    => out.sols[i] = EmptySubst
        /\ (kb = Cooling /\ inp.query = Lit("NeedsCooling", <<X>>))
              => out.sols = << (X :> Str("living_room"))
                                 @@ (Var("Room", <<inp.ctr>>) :> Str("living_room"))
                                 @@ (Var("T", <<inp.ctr>>) :> Num(29)) >>
        /\ (kb = Cooling /\ inp.query = Lit("NeedsCooling", <<Str("living_room")>>))
              => out.sols = << (Var("Room", <<inp.ctr>>) :> Str("living_room"))
                                 @@ (Var("T", <<inp.ctr>>) :> Num(29)) >>

\* NeedsCooling(X) has been asked and answered with one solution
C2_Witness ==
    /\ op = "ask" /\ kb = Cooling /\ inp.query = Lit("NeedsCooling", <<X>>)
    /\ Len(out.sols) = 1 /\ out.sols[1][X] = Str("living_room")

\* C7: every rule application draws a counter value no other draws, in
\* increasing order; the variables of the renamed copy all end in that
\* value and are none of the variables in play (the query's, the goal's,
\* the keys and values of the substitution, those of the other copies).
C7_FreshCopies ==
    op = "ask" =>
        /\ \A i \in 1..Len(out.log) : out.log[i].uid = inp.ctr + i - 1
        /\ out.ctr = inp.ctr + Len(out.log)
        /\ \A i \in 1..Len(out.log) :
              /\ \A v \in out.log[i].copy : v[3] # <<>> /\ v[3][Len(v[3])] = out.log[i].uid
              /\ out.log[i].copy \cap (out.log[i].inplay \cup ArgVars(inp.query.args)) = {}
              /\ \A j \in 1..Len(out.log) : j # i => out.log[i].copy \cap out.log[j].copy = {}

\* C9: on the cyclic knowledge base (P(X) :- Q(X,Y), P(Y) over Q(a,b),
\* Q(b,a)) the search for a query on P ends and ask returns a finite list
\* of solutions.
C9_Terminates ==
    (op = "ask" /\ kb = Cyclic /\ inp.query.pred = "P") => out.exc = "none"

\* The substitutions the stored facts give a query, in stored order
FactSols(query, k) ==
    LET fs == SelectSeq(facts_for_pred(k.facts, query.pred),
                        LAMBDA f : unify(Lst(query.args), Lst(f[2]), EmptySubst).ok)
    IN  [i \in 1..Len(fs) |-> unify(Lst(query.args), Lst(fs[i][2]), EmptySubst).th]

\* The place of the fact p(t) among the stored facts for p
FactIndex(k, p, t) ==
    LET fs == facts_for_pred(k.facts, p) IN CHOOSE i \in 1..Len(fs) : fs[i][2] = <<t>>

\* C8: the solutions of a positive query on a stored predicate are in
\* discovery order: first one per fact that unifies, in stored order, then
\* those of the rules, rule by rule in stored order; within a body depth
\* first, left to right.  The fact part is stated for every knowledge base;
\* the rule part on Order, whose rules for R are R(X,Y) :- A(X), B(Y) (its
\* copy holds X__c, c the counter at the call) and R(X,X) :- B(X) (X__c+1):
\* the solutions of the first rule are ordered by the place of the A fact,
\* then by the place of the B fact.
C8_DiscoveryOrder ==
    (op = "ask" /\ ~inp.query.negated /\ inp.query.pred \notin Builtins /\ out.exc = "none") =>
        LET sols == out.sols
            fsols == FactSols(inp.query, kb)
            n == Len(fsols)
            x1 == Var("X", <<inp.ctr>>)
            y1 == Var("Y", <<inp.ctr>>)
            x2 == Var("X", <<inp.ctr + 1>>)
            Origin(i) == IF i <= n THEN 0
                         ELSE IF x1 \in DOMAIN sols[i] THEN 1
                         ELSE IF x2 \in DOMAIN sols[i] THEN 2
                         ELSE 3
            A(i) == FactIndex(kb, "A", sols[i][x1])
            B(i) == FactIndex(kb, "B", sols[i][y1])
            B2(i) == FactIndex(kb, "B", sols[i][x2])
        IN  /\ Len(sols) >= n
            /\ SubSeq(sols, 1, n) = fsols
            /\ (kb = Order /\ inp.query.pred = "R" /\ Len(inp.query.args) = 2) =>
                  \A i \in 1..Len(sols) : \A j \in (i + 1)..Len(sols) :
                      /\ Origin(i) <= Origin(j) /\ Origin(j) # 3
                      /\ (Origin(i) = 1 /\ Origin(j) = 1)
                            => (A(i) < A(j) \/ (A(i) = A(j) /\ B(i) < B(j)))
                      /\ (Origin(i) = 2 /\ Origin(j) = 2) => B2(i) < B2(j)

\* R(X, Y) has been asked on Order: two facts, four solutions of the first
\* rule, two of the second
C8_Witness ==
    /\ op = "ask" /\ kb = Order /\ inp.query = Lit("R", <<X, Y>>)
    /\ Len(out.sols) = 8

----------------------------------------------------------------------------
(* Claims about prove_literal and eval_builtin *)

\* C3: evaluating GreaterThan or LessThan never raises: eval_builtin
\* returns true or false, prove_literal yields one solution or none.
C3_NeverRaises ==
    /\ op = "eval_builtin" => out.exc = "none"
    /\ op = "prove_literal" => (out.exc = "none" /\ Len(out.sols) <= 1)

\* C4: for a ground literal L whose search ends, exactly one of L and not L
\* has a solution.
C4_NegationConsistent ==
    (op = "prove_literal" /\ ArgVars(inp.literal.args) = {} /\ out.exc # "RecursionError") =>
        LET twin == prove_literal([inp.literal EXCEPT !.negated = ~inp.literal.negated],
                                  kb.facts, kb.rules, inp.s, TopLevel(inp.ctr))
        IN  (out.sols # <<>>) # (twin.sols # <<>>)

\* C10: a negated literal and a built-in literal yield at most one
\* substitution, and it is the input substitution; a built-in with an
\* unbound variable among its two operands yields nothing.
C10_TestsOnly ==
    (op = "prove_literal" /\ (inp.literal.negated \/ inp.literal.pred \in Builtins)) =>
        /\ Len(out.sols) <= 1
        /\ \A i \in 1..Len(out.sols) : out.sols[i] = inp.s
        /\ (/\ inp.literal.pred \in Builtins /\ ~inp.literal.negated
            /\ \E j \in 1..Len(inp.literal.args) :
                  j <= 2 /\ is_variable(apply_subst_to_term(inp.literal.args[j], inp.s)))
              => out.sols = <<>>

\* A negated literal has succeeded on a substitution with bindings, after
\* the attempt on its positive form applied a rule and bound variables
C10_Witness ==
    /\ op = "prove_literal" /\ inp.literal.negated /\ inp.literal.pred \notin Builtins
    /\ inp.s # EmptySubst
    /\ out.log # <<>>
    /\ out.sols = <<inp.s>>

\* A built-in with an unbound operand has yielded nothing
C10_WitnessBuiltin ==
    /\ op = "prove_literal" /\ ~inp.literal.negated /\ inp.literal.pred \in Builtins
    /\ Len(inp.literal.args) = 2
    /\ is_variable(apply_subst_to_term(inp.literal.args[1], inp.s))
    /\ out.exc = "none" /\ out.sols = <<>>

====
